---- MODULE Spec2Model ----
(***************************************************************************)
(* ArchManage folder lifecycle manager (src/src/folders/handler.py).       *)
(*                                                                         *)
(* One Lambda invocation (main) is one atomic step: the request is an      *)
(* input, the DynamoDB table ArchManageFolders and the set of S3 buckets   *)
(* are the state, the response envelope is recorded in resp.               *)
(* Strings that reach the bucket-name code are tuples of one-character     *)
(* strings, so that sanitize_bucket_name is computed, not assumed.         *)
(***************************************************************************)
EXTENDS Integers, Sequences, FiniteSets, TLC

VARIABLES table, buckets, issued, req, resp, sanitized, calls

vars == <<table, buckets, issued, req, resp, sanitized, calls>>

(***************************************************************************)
(* Bounds of the model.                                                    *)
(***************************************************************************)
\* uuid4 values generated in one run (ids are 1..MaxFolders, never reused)
MaxFolders == 2
\* items DynamoDB reads into one Scan page (the 1 MB page, scaled down)
ScanPageSize == 1
\* length of the free part of a string given to sanitize_bucket_name
MaxCoreLen == 4
\* invocations of main that run at the same time
MaxCalls == 2

(***************************************************************************)
(* Python values.  None is the empty tuple, a present value v is <<v>>.    *)
(***************************************************************************)
None == <<>>

Some(v) == <<v>>

IsNone(o) == Len(o) = 0

Val(o) == o[1]

Ids == 1 .. MaxFolders

(***************************************************************************)
(* Characters and str methods used by sanitize_bucket_name.                *)
(***************************************************************************)
UpperChars == <<"A","B","C","D","E","F","G","H","I","J","K","L","M",
                "N","O","P","Q","R","S","T","U","V","W","X","Y","Z">>

LowerChars == <<"a","b","c","d","e","f","g","h","i","j","k","l","m",
                "n","o","p","q","r","s","t","u","v","w","x","y","z">>

DigitChars == <<"0","1","2","3","4","5","6","7","8","9">>

Range(s) == { s[i] : i \in DOMAIN s }

\* str.lower() on one character
LowerChar(c) ==
    IF \E i \in DOMAIN UpperChars : UpperChars[i] = c
    THEN LowerChars[CHOOSE i \in DOMAIN UpperChars : UpperChars[i] = c]
    ELSE c

\* the character class [a-z0-9\-] of the re.sub at handler.py:104
BucketChars == Range(LowerChars) \cup Range(DigitChars) \cup {"-"}

IsBucketChar(c) == c \in BucketChars

\* str.strip("-")
RECURSIVE LStrip(_)
LStrip(s) == IF Len(s) > 0 /\ Head(s) = "-" THEN LStrip(Tail(s)) ELSE s

RECURSIVE RStrip(_)
RStrip(s) ==
    IF Len(s) > 0 /\ s[Len(s)] = "-" THEN RStrip(SubSeq(s, 1, Len(s) - 1)) ELSE s

\* strip that takes the hyphens off the front only
Strip_LeadingOnly(s) == LStrip(s)

Strip(s) == RStrip(LStrip(s))

MinBucketLen == 3

MaxBucketLen == 63

\* the cleaned form: lower, spaces to hyphens, drop invalid characters, strip
CleanBucketName(bucket_name) ==
    LET lowered  == [i \in DOMAIN bucket_name |-> LowerChar(bucket_name[i])]
        hyphened == [i \in DOMAIN lowered |->
                        IF lowered[i] = " " THEN "-" ELSE lowered[i]]
        kept     == SelectSeq(hyphened, IsBucketChar)
    IN  Strip(kept)

\* sanitize_bucket_name: ok = FALSE is InvalidBucketNameError
sanitize_bucket_name(bucket_name) ==
    LET cleaned == CleanBucketName(bucket_name)
    IN  IF Len(cleaned) < MinBucketLen \/ Len(cleaned) > MaxBucketLen
        THEN [ok |-> FALSE, name |-> cleaned]
        ELSE [ok |-> TRUE, name |-> cleaned]

(***************************************************************************)
(* uuid.uuid4(): the n-th value generated, as its 36-character text.       *)
(***************************************************************************)
UuidLen == 36

UuidStr(n) ==
    [i \in 1 .. UuidLen |->
        IF i \in {9, 14, 19, 24} THEN "-"
        ELSE IF i = 15 THEN "4"
        ELSE IF i = 20 THEN "a"
        ELSE IF i = UuidLen THEN DigitChars[n + 1]
        ELSE "0"]

(***************************************************************************)
(* Caller identities (the auth header).  An identity is held as a string;  *)
(* Chars gives its characters where the code builds a bucket name from it. *)
(***************************************************************************)
UserAna == "ana"

UserEve == "Eve"

\* a 36-character identity (the shape of a Cognito sub)
UserLong == "c7777777-7777-7777-7777-777777777777"

Users == {UserAna, UserEve, UserLong}

\* an identity with a space in it
UserSpaced == "a b"

Chars(user_id) ==
    CASE user_id = UserAna  -> <<"a","n","a">>
      [] user_id = UserEve  -> <<"E","v","e">>
      [] user_id = UserLong ->
            [i \in 1 .. 36 |->
                IF i \in {9, 14, 19, 24} THEN "-" ELSE IF i = 1 THEN "c" ELSE "7"]
      [] user_id = UserSpaced -> <<"a", " ", "b">>
      [] user_id = ""       -> <<>>

\* f"{folder_id}-{user_id}"
RawBucketName(folder_id, user_id) ==
    UuidStr(folder_id) \o <<"-">> \o Chars(user_id)

(***************************************************************************)
(* Exception classes (handler.py:19-62) and their status codes.  Any other *)
(* exception ("Exception") reaches the generic handler of main: 500.       *)
(***************************************************************************)
CustomExceptions ==
    {"FolderAlreadyExistsError", "FolderNotFoundError", "FolderPermissionError",
     "InvalidBucketNameError", "FolderNameRequiredError", "InternalServerError",
     "InvalidPayload"}

\* status_code with FolderPermissionError given the code of a bad request
status_code_Permission400(exc) ==
    CASE exc = "FolderAlreadyExistsError" -> 409
      [] exc = "FolderNotFoundError"      -> 404
      [] exc = "FolderPermissionError"    -> 400
      [] exc = "InvalidBucketNameError"   -> 400
      [] exc = "FolderNameRequiredError"  -> 400
      [] exc = "InternalServerError"      -> 500
      [] exc = "InvalidPayload"           -> 400
      [] OTHER                            -> 500

status_code(exc) ==
    CASE exc = "FolderAlreadyExistsError" -> 409
      [] exc = "FolderNotFoundError"      -> 404
      [] exc = "FolderPermissionError"    -> 403
      [] exc = "InvalidBucketNameError"   -> 400
      [] exc = "FolderNameRequiredError"  -> 400
      [] exc = "InternalServerError"      -> 500
      [] exc = "InvalidPayload"           -> 400
      [] OTHER                            -> 500

(***************************************************************************)
(* S3: the state is the set of bucket names that exist.                    *)
(***************************************************************************)
\* botocore refuses a Bucket parameter outside [a-zA-Z0-9.\-_]{1,255}
\* before any request is sent (ParamValidationError, not a ClientError)
BotoBucketChars ==
    Range(LowerChars) \cup Range(UpperChars) \cup Range(DigitChars) \cup {".", "-", "_"}

BotoAcceptsBucket(name) ==
    /\ Len(name) >= 1
    /\ Len(name) <= 255
    /\ \A i \in DOMAIN name : name[i] \in BotoBucketChars

\* folder_exists_in_s3: "yes", "no" (ClientError 404), or "raise"
folder_exists_in_s3(bkts, folder_id, user_id) ==
    LET bucket_name == RawBucketName(folder_id, user_id)
    IN  IF ~BotoAcceptsBucket(bucket_name) THEN "raise"
        ELSE IF bucket_name \in bkts THEN "yes"
        ELSE "no"

\* create_folder_in_s3: exc = "" on success
create_folder_in_s3(bkts, folder_id, user_id) ==
    LET san == sanitize_bucket_name(RawBucketName(folder_id, user_id))
        ex  == folder_exists_in_s3(bkts, folder_id, user_id)
    IN  IF ~san.ok THEN [exc |-> "InvalidBucketNameError", buckets |-> bkts]
        ELSE IF ex = "raise" THEN [exc |-> "Exception", buckets |-> bkts]
        ELSE IF ex = "yes" THEN [exc |-> "FolderAlreadyExistsError", buckets |-> bkts]
        ELSE [exc |-> "", buckets |-> bkts \cup {san.name}]

\* delete_folder_from_s3: a missing bucket is a ClientError, re-raised as Exception
delete_folder_from_s3(bkts, folder_id, user_id) ==
    LET bucket_name == RawBucketName(folder_id, user_id)
    IN  IF ~BotoAcceptsBucket(bucket_name) \/ bucket_name \notin bkts
        THEN [exc |-> "Exception", buckets |-> bkts]
        ELSE [exc |-> "", buckets |-> bkts \ {bucket_name}]

(***************************************************************************)
(* DynamoDB: the table is a function from the ids that have an item to the *)
(* item.                                                                   *)
(***************************************************************************)
DefaultType == "default"

NewFolder(folder_id, user_id, folder_name, folder_type) ==
    [id |-> folder_id, owner |-> user_id, name |-> folder_name,
     sub_folders |-> <<>>, type |-> folder_type,
     required_files |-> <<>>, files |-> <<>>]

\* put_item that does not write when the owner has a folder of that name
PutItem_UniqueName(tbl, item) ==
    IF \E i \in DOMAIN tbl : tbl[i].owner = item.owner /\ tbl[i].name = item.name
    THEN tbl
    ELSE [i \in DOMAIN tbl \cup {item.id} |-> IF i = item.id THEN item ELSE tbl[i]]

\* put_item
PutItem(tbl, item) ==
    [i \in DOMAIN tbl \cup {item.id} |-> IF i = item.id THEN item ELSE tbl[i]]

\* delete_item
DeleteItem(tbl, folder_id) == [i \in DOMAIN tbl \ {folder_id} |-> tbl[i]]

\* the pages a Scan may start with: DynamoDB reads ScanPageSize items in an
\* order of its own, then filters
FirstPages(tbl) ==
    IF Cardinality(DOMAIN tbl) <= ScanPageSize THEN {DOMAIN tbl}
    ELSE { p \in SUBSET DOMAIN tbl : Cardinality(p) = ScanPageSize }

\* LastEvaluatedKey is in the response when items remain after the page
HasLastEvaluatedKey(tbl, page) == page # DOMAIN tbl

\* DynamoDB rejects a request that names an attribute placeholder which no
\* expression of the request uses (ValidationException)
ScanAccepted(names_given, names_used) == names_given \subseteq names_used

\* DynamoDB rejects an UpdateExpression in which the SET keyword occurs
\* more than once (ValidationException)
UpdateExpressionAccepted(parts) == Len(parts) <= 1

\* create_folder_in_dynamodb that gives the new folder the lowest id no
\* record has
create_folder_in_dynamodb_ReusedId(tbl, n, folder_name, user_id, folder_parent, folder_type, page) ==
    LET existing    == { i \in page : tbl[i].owner = user_id /\ tbl[i].name = folder_name }
        folder_id   == CHOOSE i \in 1 .. n + 1 :
                          i \notin DOMAIN tbl /\ \A j \in 1 .. i - 1 : j \in DOMAIN tbl
        folder_data == NewFolder(folder_id, user_id, folder_name, folder_type)
    IN  IF existing # {}
        THEN [exc |-> "FolderAlreadyExistsError", table |-> tbl, issued |-> n,
              folder_data |-> None]
        ELSE IF ~IsNone(folder_parent) /\ Val(folder_parent) \notin DOMAIN tbl
        THEN [exc |-> "FolderNotFoundError", table |-> tbl, issued |-> n + 1,
              folder_data |-> None]
        ELSE LET tbl1 == IF IsNone(folder_parent) THEN tbl
                         ELSE [tbl EXCEPT ![Val(folder_parent)].sub_folders =
                                              Append(@, folder_id)]
             IN  [exc |-> "", table |-> PutItem(tbl1, folder_data),
                  issued |-> n + 1, folder_data |-> Some(folder_data)]

\* create_folder_in_dynamodb with put_item ahead of the lookup of the parent
create_folder_in_dynamodb_PutFirst(tbl, n, folder_name, user_id, folder_parent, folder_type, page) ==
    LET existing    == { i \in page : tbl[i].owner = user_id /\ tbl[i].name = folder_name }
        folder_id   == n + 1
        folder_data == NewFolder(folder_id, user_id, folder_name, folder_type)
    IN  IF existing # {}
        THEN [exc |-> "FolderAlreadyExistsError", table |-> tbl, issued |-> n,
              folder_data |-> None]
        ELSE IF ~IsNone(folder_parent) /\ Val(folder_parent) \notin DOMAIN tbl
        THEN [exc |-> "FolderNotFoundError", table |-> PutItem(tbl, folder_data),
              issued |-> n + 1, folder_data |-> None]
        ELSE LET tbl1 == IF IsNone(folder_parent) THEN tbl
                         ELSE [tbl EXCEPT ![Val(folder_parent)].sub_folders =
                                              Append(@, folder_id)]
             IN  [exc |-> "", table |-> PutItem(tbl1, folder_data),
                  issued |-> n + 1, folder_data |-> Some(folder_data)]

\* create_folder_in_dynamodb; page is the page its single Scan reads
create_folder_in_dynamodb(tbl, n, folder_name, user_id, folder_parent, folder_type, page) ==
    LET existing    == { i \in page : tbl[i].owner = user_id /\ tbl[i].name = folder_name }
        folder_id   == n + 1
        folder_data == NewFolder(folder_id, user_id, folder_name, folder_type)
    IN  IF existing # {}
        THEN [exc |-> "FolderAlreadyExistsError", table |-> tbl, issued |-> n,
              folder_data |-> None]
        ELSE IF ~IsNone(folder_parent) /\ Val(folder_parent) \notin DOMAIN tbl
        THEN [exc |-> "FolderNotFoundError", table |-> tbl, issued |-> n + 1,
              folder_data |-> None]
        ELSE LET tbl1 == IF IsNone(folder_parent) THEN tbl
                         ELSE [tbl EXCEPT ![Val(folder_parent)].sub_folders =
                                              Append(@, folder_id)]
             IN  [exc |-> "", table |-> PutItem(tbl1, folder_data),
                  issued |-> n + 1, folder_data |-> Some(folder_data)]

\* list.remove(x): the first occurrence goes
RECURSIVE ListRemove(_, _)
ListRemove(s, x) ==
    IF Len(s) = 0 THEN s
    ELSE IF Head(s) = x THEN Tail(s)
    ELSE <<Head(s)>> \o ListRemove(Tail(s), x)

\* the for loop of delete_folder_from_dynamodb from position k of the list
\* read at the start; every update_item before an exception stays written
RECURSIVE DeleteLoop(_, _, _, _)
DeleteLoop(tbl, subs, k, folder_id) ==
    IF k > Len(subs) THEN [exc |-> "", table |-> tbl]
    ELSE IF subs[k] \notin DOMAIN tbl
         THEN [exc |-> "Exception", table |-> tbl]
    ELSE IF folder_id \notin Range(tbl[subs[k]].sub_folders)
         THEN [exc |-> "Exception", table |-> tbl]
    ELSE DeleteLoop([tbl EXCEPT ![subs[k]].sub_folders = ListRemove(@, folder_id)],
                    subs, k + 1, folder_id)

\* delete_folder_from_dynamodb that takes the id out of every list that
\* holds it, the parents' too
delete_folder_from_dynamodb_AllLists(tbl, folder_id) ==
    IF folder_id \notin DOMAIN tbl
    THEN [exc |-> "FolderNotFoundError", table |-> tbl]
    ELSE [exc |-> "",
          table |-> DeleteItem([i \in DOMAIN tbl |->
                                   [tbl[i] EXCEPT !.sub_folders =
                                       ListRemove(@, folder_id)]],
                               folder_id)]

delete_folder_from_dynamodb(tbl, folder_id) ==
    IF folder_id \notin DOMAIN tbl
    THEN [exc |-> "FolderNotFoundError", table |-> tbl]
    ELSE LET looped == DeleteLoop(tbl, tbl[folder_id].sub_folders, 1, folder_id)
         IN  IF looped.exc # "" THEN looped
             ELSE [exc |-> "", table |-> DeleteItem(looped.table, folder_id)]

\* get_folder_by_id without the comparison of owner and user_id
get_folder_by_id_AnyCaller(tbl, folder_id, user_id) ==
    IF folder_id \notin DOMAIN tbl THEN [exc |-> "", folder |-> None]
    ELSE [exc |-> "", folder |-> Some(tbl[folder_id])]

\* get_folder_by_id: folder None with exc "" is the "does not exist" return
get_folder_by_id(tbl, folder_id, user_id) ==
    IF folder_id \notin DOMAIN tbl THEN [exc |-> "", folder |-> None]
    ELSE IF tbl[folder_id].owner # user_id
         THEN [exc |-> "FolderPermissionError", folder |-> None]
    ELSE [exc |-> "", folder |-> Some(tbl[folder_id])]

\* the ids of a set, ascending, as a sequence
RECURSIVE Ascending(_)
Ascending(S) ==
    IF S = {} THEN <<>>
    ELSE LET m == CHOOSE x \in S : \A y \in S : x <= y
         IN  <<m>> \o Ascending(S \ {m})

\* get_all_folders: the first Scan, then one Scan per LastEvaluatedKey with
\* ExpressionAttributeNames {#owner, #name} and a filter that uses #owner only
get_all_folders(tbl, user_id, page) ==
    LET mine(P) == { i \in P : tbl[i].owner = user_id }
        order   == Ascending(mine(page))
        items   == [k \in DOMAIN order |-> tbl[order[k]]]
    IN  IF ~HasLastEvaluatedKey(tbl, page) THEN [exc |-> "", folders |-> items]
        ELSE IF ~ScanAccepted({"#owner", "#name"}, {"#owner"})
             THEN [exc |-> "Exception", folders |-> <<>>]
        ELSE LET all == Ascending(mine(DOMAIN tbl))
             IN  [exc |-> "", folders |-> [k \in DOMAIN all |-> tbl[all[k]]]]

\* update_folder_in_dynamodb: parts is update_expression_parts, folder is the
\* local folder_data that is returned
update_folder_in_dynamodb(tbl, folder_id, folder_name, folder_type, required_files, sub_folders, user_id) ==
    IF folder_id \notin DOMAIN tbl
    THEN [exc |-> "FolderNotFoundError", table |-> tbl, folder |-> None]
    ELSE IF tbl[folder_id].owner # user_id
    THEN [exc |-> "FolderPermissionError", table |-> tbl, folder |-> None]
    ELSE
    LET setName == ~IsNone(folder_name) /\ Val(folder_name) # ""
        setType == ~IsNone(folder_type) /\ Val(folder_type) # ""
        setReq  == ~IsNone(required_files)
        setSub  == ~IsNone(sub_folders)
        d0 == tbl[folder_id]
        d1 == IF setName THEN [d0 EXCEPT !.name = Val(folder_name)] ELSE d0
        d2 == IF setType THEN [d1 EXCEPT !.type = Val(folder_type)] ELSE d1
        d3 == IF setReq THEN [d2 EXCEPT !.required_files = Val(required_files)] ELSE d2
        d4 == IF setSub THEN [d3 EXCEPT !.sub_folders = Val(sub_folders)] ELSE d3
        parts == (IF setName THEN <<"SET #name = :name">> ELSE <<>>)
              \o (IF setType THEN <<"SET #type = :type">> ELSE <<>>)
              \o (IF setReq THEN <<"SET #required_files = :required_files">> ELSE <<>>)
              \o (IF setSub THEN <<"SET #sub_folders = :sub_folders">> ELSE <<>>)
    IN  IF Len(parts) = 0 THEN [exc |-> "", table |-> tbl, folder |-> Some(d4)]
        ELSE IF ~UpdateExpressionAccepted(parts)
        THEN [exc |-> "Exception", table |-> tbl, folder |-> None]
        ELSE [exc |-> "", table |-> [tbl EXCEPT ![folder_id] = d4],
              folder |-> Some(d4)]

(***************************************************************************)
(* main: the router.  An outcome is the response (statusCode, error: the   *)
(* exception class or the error of a direct build_response, data: the      *)
(* folders of the body) and the stores after the invocation.               *)
(***************************************************************************)
Outcome(code, err, data, tbl, bkts, n) ==
    [statusCode |-> code, error |-> err, data |-> data,
     table |-> tbl, buckets |-> bkts, issued |-> n]

\* the two except clauses of main
Raised(exc, tbl, bkts, n) ==
    IF exc \in CustomExceptions
    THEN Outcome(status_code(exc), exc, <<>>, tbl, bkts, n)
    ELSE Outcome(500, "Exception", <<>>, tbl, bkts, n)

\* event.get("pathParameters", {}).get("folder_id") of the PUT and DELETE
\* branches: pathParameters None raises AttributeError
PathNull == None

PathEmpty == Some(None)

PathId(i) == Some(Some(i))

\* the POST branch with the table put back as it was when
\* create_folder_in_s3 raises
MainPost_RolledBack(event, user_id, page, tbl, bkts, n) ==
    IF IsNone(event.body) THEN Raised("Exception", tbl, bkts, n)
    ELSE
    LET body          == Val(event.body)
        folder_name   == body.folder_name
        folder_parent == body.folder_parent
        folder_type   == IF IsNone(body.type) THEN DefaultType ELSE Val(body.type)
    IN  IF IsNone(folder_name) \/ Val(folder_name) = ""
        THEN Raised("FolderNameRequiredError", tbl, bkts, n)
        ELSE
        LET c == create_folder_in_dynamodb(tbl, n, Val(folder_name), user_id,
                                           folder_parent, folder_type, page)
        IN  IF c.exc # "" THEN Raised(c.exc, c.table, bkts, c.issued)
            ELSE
            LET s == create_folder_in_s3(bkts, Val(c.folder_data).id, user_id)
            IN  IF s.exc # "" THEN Raised(s.exc, tbl, s.buckets, c.issued)
                ELSE Outcome(201, "", c.folder_data, c.table, s.buckets, c.issued)

MainPost(event, user_id, page, tbl, bkts, n) ==
    IF IsNone(event.body) THEN Raised("Exception", tbl, bkts, n)
    ELSE
    LET body          == Val(event.body)
        folder_name   == body.folder_name
        folder_parent == body.folder_parent
        folder_type   == IF IsNone(body.type) THEN DefaultType ELSE Val(body.type)
    IN  IF IsNone(folder_name) \/ Val(folder_name) = ""
        THEN Raised("FolderNameRequiredError", tbl, bkts, n)
        ELSE
        LET c == create_folder_in_dynamodb(tbl, n, Val(folder_name), user_id,
                                           folder_parent, folder_type, page)
        IN  IF c.exc # "" THEN Raised(c.exc, c.table, bkts, c.issued)
            ELSE
            LET s == create_folder_in_s3(bkts, Val(c.folder_data).id, user_id)
            IN  IF s.exc # "" THEN Raised(s.exc, c.table, s.buckets, c.issued)
                ELSE Outcome(201, "", c.folder_data, c.table, s.buckets, c.issued)

MainGet(event, user_id, page, tbl, bkts, n) ==
    LET parameters == event.pathParameters
        folder_id  == IF IsNone(parameters) THEN None ELSE Val(parameters)
    IN  IF ~IsNone(folder_id)
        THEN LET g == get_folder_by_id(tbl, Val(folder_id), user_id)
             IN  IF g.exc # "" THEN Raised(g.exc, tbl, bkts, n)
                 ELSE IF IsNone(g.folder)
                      THEN Raised("FolderNotFoundError", tbl, bkts, n)
                 ELSE Outcome(200, "", g.folder, tbl, bkts, n)
        ELSE LET a == get_all_folders(tbl, user_id, page)
             IN  IF a.exc # "" THEN Raised(a.exc, tbl, bkts, n)
                 ELSE Outcome(200, "", a.folders, tbl, bkts, n)

MainPut(event, user_id, tbl, bkts, n) ==
    IF event.pathParameters = PathNull THEN Raised("Exception", tbl, bkts, n)
    ELSE IF event.pathParameters = PathEmpty
    THEN Raised("FolderNotFoundError", tbl, bkts, n)
    ELSE IF IsNone(event.body) THEN Raised("Exception", tbl, bkts, n)
    ELSE
    LET body == Val(event.body)
        u == update_folder_in_dynamodb(tbl, Val(Val(event.pathParameters)),
                                       body.folder_name, body.type,
                                       body.required_files, body.sub_folders,
                                       user_id)
    IN  IF u.exc # "" THEN Raised(u.exc, u.table, bkts, n)
        ELSE Outcome(200, "", u.folder, u.table, bkts, n)

MainDelete(event, user_id, tbl, bkts, n) ==
    IF event.pathParameters = PathNull THEN Raised("Exception", tbl, bkts, n)
    ELSE IF event.pathParameters = PathEmpty
    THEN Raised("FolderNotFoundError", tbl, bkts, n)
    ELSE
    LET folder_id == Val(Val(event.pathParameters))
        g == get_folder_by_id(tbl, folder_id, user_id)
    IN  IF g.exc # "" THEN Raised(g.exc, tbl, bkts, n)
        ELSE IF IsNone(g.folder) THEN Raised("FolderNotFoundError", tbl, bkts, n)
        ELSE
        LET s == delete_folder_from_s3(bkts, folder_id, user_id)
        IN  IF s.exc # "" THEN Raised(s.exc, tbl, s.buckets, n)
            ELSE
            LET d == delete_folder_from_dynamodb(tbl, folder_id)
            IN  IF d.exc # "" THEN Raised(d.exc, d.table, s.buckets, n)
                ELSE Outcome(200, "", <<>>, d.table, s.buckets, n)

\* main that takes only an absent auth header for a missing identity
main_EmptyIdentityRouted(event, page, tbl, bkts, n) ==
    IF event.httpMethod = "OPTIONS" THEN Outcome(200, "", <<>>, tbl, bkts, n)
    ELSE IF IsNone(event.auth)
    THEN Outcome(400, "User ID is missing in headers", <<>>, tbl, bkts, n)
    ELSE
    LET user_id == Val(event.auth)
    IN  CASE event.httpMethod = "POST"   -> MainPost(event, user_id, page, tbl, bkts, n)
          [] event.httpMethod = "GET"    -> MainGet(event, user_id, page, tbl, bkts, n)
          [] event.httpMethod = "PUT"    -> MainPut(event, user_id, tbl, bkts, n)
          [] event.httpMethod = "DELETE" -> MainDelete(event, user_id, tbl, bkts, n)
          [] OTHER -> Outcome(405, "Method Not Allowed", <<>>, tbl, bkts, n)

\* main(event, context); page is the page the first Scan of the invocation reads
main(event, page, tbl, bkts, n) ==
    IF event.httpMethod = "OPTIONS" THEN Outcome(200, "", <<>>, tbl, bkts, n)
    ELSE IF IsNone(event.auth) \/ Val(event.auth) = ""
    THEN Outcome(400, "User ID is missing in headers", <<>>, tbl, bkts, n)
    ELSE
    LET user_id == Val(event.auth)
    IN  CASE event.httpMethod = "POST"   -> MainPost(event, user_id, page, tbl, bkts, n)
          [] event.httpMethod = "GET"    -> MainGet(event, user_id, page, tbl, bkts, n)
          [] event.httpMethod = "PUT"    -> MainPut(event, user_id, tbl, bkts, n)
          [] event.httpMethod = "DELETE" -> MainDelete(event, user_id, tbl, bkts, n)
          [] OTHER -> Outcome(405, "Method Not Allowed", <<>>, tbl, bkts, n)

(***************************************************************************)
(* Requests.                                                               *)
(***************************************************************************)
Names == {"Q1", "Sub"}

Event(method, auth, path, body) ==
    [httpMethod |-> method, auth |-> auth, pathParameters |-> path, body |-> body]

Payload(name, parent, type, required, subs) ==
    [folder_name |-> name, folder_parent |-> parent, type |-> type,
     required_files |-> required, sub_folders |-> subs]

Paths == {PathNull, PathEmpty} \cup { PathId(i) : i \in Ids }

\* a body that also carries the keys id and owner, which no branch of main
\* reads
ForgedPayload ==
    Payload(Some("Sub"), None, None, None, None) @@ [id |-> MaxFolders, owner |-> UserEve]

\* bodies of POST: None is a body json.loads cannot parse
PostBodies ==
    {None}
    \cup { Some(Payload(name, None, None, None, None)) : name \in {None, Some("")} }
    \cup { Some(Payload(Some(name), parent, None, None, None)) :
             name \in Names, parent \in {None} \cup { Some(i) : i \in Ids } }
    \cup {Some(ForgedPayload)}

\* bodies of POST with and without a type, no parent
TypedPostBodies ==
    { Some(Payload(Some(name), None, type, None, None)) :
         name \in Names, type \in {None, Some("doc")} }

SubFolderLists == {<<>>} \cup { <<i>> : i \in Ids }

\* bodies of PUT: unparsable, no field, a name, a sub_folders list, both
PutBodies ==
    {None, Some(Payload(None, None, None, None, None)),
     Some(Payload(Some("Sub"), None, None, None, None)),
     Some(Payload(Some("Sub"), None, None, None, Some(<<>>))),
     Some(ForgedPayload)}
    \cup { Some(Payload(None, None, None, None, Some(l))) : l \in SubFolderLists }

\* bodies of PUT: every subset of the four optional fields
FieldPutBodies ==
    { Some(Payload(name, None, type, required, subs)) :
         name \in {None, Some("Sub")},
         type \in {None, Some("doc")},
         required \in {None, Some(<<"a.txt">>)},
         subs \in {None} \cup { Some(l) : l \in SubFolderLists } }

NoRequest == Event("", None, PathNull, None)

NoResponse == [statusCode |-> 0, error |-> "", data |-> <<>>]

(***************************************************************************)
(* The state machine: one action per kind of request.                      *)
(***************************************************************************)
\* no call of sanitize_bucket_name on its own is under way
NoSanitize ==
    [phase |-> "none", input |-> <<>>,
     first |-> [ok |-> FALSE, name |-> <<>>],
     second |-> [ok |-> FALSE, name |-> <<>>]]

\* no invocation is part-way through create_folder_in_dynamodb
NoCalls == <<>>

EmptyStores ==
    /\ table = <<>>
    /\ buckets = {}
    /\ issued = 0
    /\ req = NoRequest
    /\ resp = NoResponse

Init ==
    /\ EmptyStores
    /\ sanitized = NoSanitize
    /\ calls = NoCalls

\* one invocation of main, run to its response; invocations do not overlap;
\* cap bounds the uuids generated in the run
InvokeUpTo(cap, event, page) ==
    /\ req = NoRequest
    /\ \E o \in {main(event, page, table, buckets, issued)} :
          /\ o.issued <= cap
          /\ table' = o.table
          /\ buckets' = o.buckets
          /\ issued' = o.issued
          /\ req' = event
          /\ resp' = [statusCode |-> o.statusCode, error |-> o.error,
                      data |-> o.data]
          /\ UNCHANGED <<sanitized, calls>>

Invoke(event, page) == InvokeUpTo(MaxFolders, event, page)

\* the envelope is handed to the caller and the invocation ends; nothing of
\* it stays in the process
Return ==
    /\ req # NoRequest
    /\ req' = NoRequest
    /\ resp' = NoResponse
    /\ UNCHANGED <<table, buckets, issued, sanitized, calls>>

Options ==
    \E auth \in {None, Some(UserAna)} :
        Invoke(Event("OPTIONS", auth, PathNull, None), DOMAIN table)

\* a request without the auth header, or with an empty one, of any verb, with
\* or without a folder id and a payload
NoIdentity ==
    \E method \in {"POST", "GET", "PUT", "DELETE", "PATCH"}, auth \in {None, Some("")},
       path \in Paths, body \in {None, Some(Payload(Some("Q1"), None, None, None, None))} :
        Invoke(Event(method, auth, path, body), DOMAIN table)

Post(cap, users, bodies) ==
    \E u \in users, body \in bodies, page \in FirstPages(table) :
        InvokeUpTo(cap, Event("POST", Some(u), PathNull, body), page)

Put(users, bodies) ==
    \E u \in users, i \in Ids, body \in bodies :
        Invoke(Event("PUT", Some(u), PathId(i), body), DOMAIN table)

Create == Post(MaxFolders, Users, PostBodies)

ReadById ==
    \E u \in Users, i \in Ids :
        Invoke(Event("GET", Some(u), PathId(i), None), DOMAIN table)

ListAll ==
    \E u \in Users, path \in {PathNull, PathEmpty}, page \in FirstPages(table) :
        Invoke(Event("GET", Some(u), path, None), page)

Update == Put(Users, PutBodies)

\* PUT without a folder_id; the body is not read
UpdateNoId ==
    \E u \in Users, path \in {PathNull, PathEmpty} :
        Invoke(Event("PUT", Some(u), path, None), DOMAIN table)

Delete ==
    \E u \in Users, path \in Paths :
        Invoke(Event("DELETE", Some(u), path, None), DOMAIN table)

OtherMethod ==
    \E u \in Users : Invoke(Event("PATCH", Some(u), PathNull, None), DOMAIN table)

Next ==
    \/ Options
    \/ NoIdentity
    \/ Create
    \/ ReadById
    \/ ListAll
    \/ Update
    \/ UpdateNoId
    \/ Delete
    \/ OtherMethod
    \/ Return

Spec == Init /\ [][Next]_vars

(***************************************************************************)
(* The field updates on their own: folders of two owners, created with or  *)
(* without a type, and PUT with every subset of the optional fields.       *)
(***************************************************************************)
FieldUsers == {UserAna, UserEve}

CreateTyped == Post(MaxFolders, FieldUsers, TypedPostBodies)

UpdateFields == Put(FieldUsers, FieldPutBodies)

NextFields == CreateTyped \/ UpdateFields \/ Return

SpecFields == Init /\ [][NextFields]_vars

(***************************************************************************)
(* The Scans on their own: a table of more items than one page holds, so   *)
(* one more uuid than in Spec.  Folders are created by name only.          *)
(***************************************************************************)
ScanFolders == MaxFolders + 1

NamedPostBodies == { Some(Payload(Some(name), None, None, None, None)) : name \in Names }

CreateNamed == Post(ScanFolders, FieldUsers, NamedPostBodies)

ListMine ==
    \E u \in FieldUsers, page \in FirstPages(table) :
        InvokeUpTo(ScanFolders, Event("GET", Some(u), PathEmpty, None), page)

NextScan == CreateNamed \/ ListMine \/ Return

SpecScan == Init /\ [][NextScan]_vars

(***************************************************************************)
(* Create on its own, by identities for which create_folder_in_s3 returns, *)
(* raises InvalidBucketNameError (the name is too long), or raises out of  *)
(* head_bucket (the unsanitized name has a space in it).                   *)
(***************************************************************************)
CreateUsers == {UserAna, UserLong, UserSpaced}

CreateAny == Post(MaxFolders, CreateUsers, PostBodies)

NextCreate == CreateAny \/ Return

SpecCreate == Init /\ [][NextCreate]_vars

(***************************************************************************)
(* sanitize_bucket_name on its own: a string is given to it, and what it   *)
(* returns is given to it again.  The strings are a free part over one     *)
(* character of each kind the function tells apart, followed by a run of   *)
(* letters that brings the length to either side of the upper limit.       *)
(***************************************************************************)
SanitizeChars == {"A", "b", "1", " ", "-", "_"}

RECURSIVE StringsUpTo(_)
StringsUpTo(n) ==
    IF n = 0 THEN {<<>>}
    ELSE LET shorter == StringsUpTo(n - 1)
         IN  shorter \cup { Append(t, c) : t \in shorter, c \in SanitizeChars }

PadLens == {0, MaxBucketLen - 4, MaxBucketLen - 2, MaxBucketLen}

Pad(k) == [i \in 1 .. k |-> "a"]

SanitizeInputs == { core \o Pad(k) : core \in StringsUpTo(MaxCoreLen), k \in PadLens }

InitSanitize ==
    /\ EmptyStores
    /\ calls = NoCalls
    /\ \E bucket_name \in SanitizeInputs :
          sanitized = [NoSanitize EXCEPT !.phase = "given", !.input = bucket_name]

\* sanitize_bucket_name(bucket_name)
Sanitize ==
    /\ sanitized.phase = "given"
    /\ sanitized' = [sanitized EXCEPT !.phase = "once", !.first = sanitize_bucket_name(sanitized.input)]
    /\ UNCHANGED <<table, buckets, issued, req, resp, calls>>

\* sanitize_bucket_name of the name it returned
SanitizeAgain ==
    /\ sanitized.phase = "once"
    /\ sanitized.first.ok
    /\ sanitized' = [sanitized EXCEPT !.phase = "twice", !.second = sanitize_bucket_name(sanitized.first.name)]
    /\ UNCHANGED <<table, buckets, issued, req, resp, calls>>

NextSanitize == Sanitize \/ SanitizeAgain

SpecSanitize == InitSanitize /\ [][NextSanitize]_vars

(***************************************************************************)
(* Concurrent POST requests.  Lambda runs each invocation in an execution  *)
(* environment of its own, so the invocations share the table and the      *)
(* buckets and nothing else, and every call of boto3 is a step of its own: *)
(* the Scan, get_item of the parent, update_item of the parent, put_item,  *)
(* and the bucket calls of create_folder_in_s3.  The table starts with one *)
(* folder of UserAna, as a Create leaves it.                               *)
(***************************************************************************)
CallIds == 1 .. MaxCalls

IdleCall ==
    [pc |-> "idle", user_id |-> "", folder_name |-> "", folder_parent |-> None,
     folder_id |-> 0, seen |-> {}, sub_folders |-> <<>>, statusCode |-> 0]

InitRace ==
    /\ table = [i \in {1} |-> NewFolder(1, UserAna, "Q1", DefaultType)]
    /\ buckets = {sanitize_bucket_name(RawBucketName(1, UserAna)).name}
    /\ issued = 1
    /\ req = NoRequest
    /\ resp = NoResponse
    /\ sanitized = NoSanitize
    /\ calls = [c \in CallIds |-> IdleCall]

\* main up to create_folder_in_dynamodb: the request has an identity, a
\* parsable body and a folder_name
Receive(c) ==
    /\ calls[c].pc = "idle"
    /\ \E u \in FieldUsers, name \in {"Sub", "Doc"}, parent \in {None, Some(1)} :
          calls' = [calls EXCEPT ![c] = [@ EXCEPT !.pc = "scan", !.user_id = u,
                                                  !.folder_name = name,
                                                  !.folder_parent = parent]]
    /\ UNCHANGED <<table, buckets, issued, req, resp, sanitized>>

\* the Scan of create_folder_in_dynamodb and, when it finds nothing, uuid4;
\* seen is the table the Scan ran against
ScanForName(c) ==
    /\ calls[c].pc = "scan"
    /\ \E page \in FirstPages(table) :
          LET existing == { i \in page : /\ table[i].owner = calls[c].user_id
                                         /\ table[i].name = calls[c].folder_name }
          IN  IF existing # {}
              THEN /\ calls' = [calls EXCEPT ![c] =
                                  [@ EXCEPT !.pc = "done", !.seen = DOMAIN table,
                                            !.statusCode = status_code("FolderAlreadyExistsError")]]
                   /\ issued' = issued
              ELSE /\ calls' = [calls EXCEPT ![c] =
                                  [@ EXCEPT !.pc = IF IsNone(calls[c].folder_parent)
                                                   THEN "put_item" ELSE "get_item",
                                            !.seen = DOMAIN table,
                                            !.folder_id = issued + 1]]
                   /\ issued' = issued + 1
    /\ UNCHANGED <<table, buckets, req, resp, sanitized>>

\* get_item of the parent, and the append to the list in the local copy
GetParent(c) ==
    /\ calls[c].pc = "get_item"
    /\ LET folder_parent == Val(calls[c].folder_parent)
       IN  IF folder_parent \notin DOMAIN table
           THEN calls' = [calls EXCEPT ![c] =
                            [@ EXCEPT !.pc = "done",
                                      !.statusCode = status_code("FolderNotFoundError")]]
           ELSE calls' = [calls EXCEPT ![c] =
                            [@ EXCEPT !.pc = "update_item",
                                      !.sub_folders = Append(table[folder_parent].sub_folders,
                                                             calls[c].folder_id)]]
    /\ UNCHANGED <<table, buckets, issued, req, resp, sanitized>>

\* update_item on the parent that appends to the list the table holds
UpdateParentItem_AppendInTable(tbl, folder_parent, sub_folders, folder_id) ==
    [tbl EXCEPT ![folder_parent].sub_folders = Append(@, folder_id)]

\* update_item on the parent: SET sub_folders = the local list
UpdateParentItem(tbl, folder_parent, sub_folders, folder_id) ==
    [tbl EXCEPT ![folder_parent].sub_folders = sub_folders]

UpdateParent(c) ==
    /\ calls[c].pc = "update_item"
    /\ table' = UpdateParentItem(table, Val(calls[c].folder_parent),
                                 calls[c].sub_folders, calls[c].folder_id)
    /\ calls' = [calls EXCEPT ![c] = [@ EXCEPT !.pc = "put_item"]]
    /\ UNCHANGED <<buckets, issued, req, resp, sanitized>>

PutFolder(c) ==
    /\ calls[c].pc = "put_item"
    /\ table' = PutItem(table, NewFolder(calls[c].folder_id, calls[c].user_id,
                                         calls[c].folder_name, DefaultType))
    /\ calls' = [calls EXCEPT ![c] = [@ EXCEPT !.pc = "create_folder_in_s3"]]
    /\ UNCHANGED <<buckets, issued, req, resp, sanitized>>

\* create_folder_in_s3 and the response of main
CreateBucket(c) ==
    /\ calls[c].pc = "create_folder_in_s3"
    /\ LET s == create_folder_in_s3(buckets, calls[c].folder_id, calls[c].user_id)
       IN  /\ buckets' = s.buckets
           /\ calls' = [calls EXCEPT ![c] =
                          [@ EXCEPT !.pc = "done",
                                    !.statusCode = IF s.exc = "" THEN 201
                                                   ELSE Raised(s.exc, table, buckets, issued).statusCode]]
    /\ UNCHANGED <<table, issued, req, resp, sanitized>>

NextRace ==
    \E c \in CallIds :
        \/ Receive(c)
        \/ ScanForName(c)
        \/ GetParent(c)
        \/ UpdateParent(c)
        \/ PutFolder(c)
        \/ CreateBucket(c)

SpecRace == InitRace /\ [][NextRace]_vars

(***************************************************************************)
(* Vocabulary of the properties.  In a step that handles a request, req'   *)
(* and resp' are the request and its response, the unprimed stores are the *)
(* stores before the request and the primed ones the stores after it.      *)
(***************************************************************************)
HasIdentity(e) == ~IsNone(e.auth) /\ Val(e.auth) # ""

Caller(e) == Val(e.auth)

HasFolderId(e) == ~IsNone(e.pathParameters) /\ ~IsNone(Val(e.pathParameters))

FolderId(e) == Val(Val(e.pathParameters))

\* a request of the named method that carries an identity and a folder id
IsById(e, method) == e.httpMethod = method /\ HasIdentity(e) /\ HasFolderId(e)

\* the request addresses an existing folder of tbl
OnExisting(e, tbl) == HasFolderId(e) /\ FolderId(e) \in DOMAIN tbl

\* the caller of the request owns the folder it addresses
ByOwner(e, tbl) == OnExisting(e, tbl) /\ tbl[FolderId(e)].owner = Caller(e)

ByStranger(e, tbl) == OnExisting(e, tbl) /\ tbl[FolderId(e)].owner # Caller(e)

Refused403(r) ==
    r.statusCode = 403 /\ r.error = "FolderPermissionError" /\ r.data = <<>>

----------------------------------------------------------------------------
(***************************************************************************)
(* C1                                                                      *)
(***************************************************************************)
StrangerRequest(e, tbl) ==
    /\ \/ IsById(e, "GET")
       \/ IsById(e, "PUT")
       \/ IsById(e, "DELETE")
    /\ ByStranger(e, tbl)

\* C1 as stated: every GET-by-id, PUT or DELETE on an existing folder by a
\* caller who is not its owner is answered 403 PermissionDenied, returns no
\* folder data and leaves the table and the buckets as they were.
C1_StrangerAlways403 ==
    [][StrangerRequest(req', table) =>
          Refused403(resp') /\ table' = table /\ buckets' = buckets]_vars

\* C1 amended: the same for GET-by-id, DELETE, and PUT whose body parses
\* (json.loads of the PUT body runs before the ownership check; a PUT with
\* an unparsable body is answered 500, also without data or any write).
C1_StrangerRefused ==
    [][(StrangerRequest(req', table)
          /\ (req'.httpMethod = "PUT" => ~IsNone(req'.body))) =>
          Refused403(resp') /\ table' = table /\ buckets' = buckets]_vars

\* C1 witness: a DELETE of an existing folder by a caller who is not its
\* owner has been answered 403 and the folder is still there.
C1_Witness ==
    /\ IsById(req, "DELETE")
    /\ ByStranger(req, table)
    /\ Refused403(resp)

(***************************************************************************)
(* C2                                                                      *)
(***************************************************************************)
\* a DELETE by the owner of an existing folder whose bucket exists under the
\* name delete_folder_from_s3 addresses
OwnerDelete(e, tbl, bkts) ==
    /\ IsById(e, "DELETE")
    /\ ByOwner(e, tbl)
    /\ RawBucketName(FolderId(e), Caller(e)) \in bkts

\* C2 as stated: Delete by the owner of an existing folder, whatever its
\* sub_folders holds, answers success; afterwards the folder is absent and no
\* folder that was listed in its sub_folders lists it.
C2_OwnerDeleteSucceeds ==
    [][OwnerDelete(req', table, buckets) =>
          LET id == FolderId(req')
          IN  /\ resp'.statusCode = 200
              /\ id \notin DOMAIN table'
              /\ \A c \in Range(table[id].sub_folders) \cap DOMAIN table' :
                    id \notin Range(table'[c].sub_folders)]_vars

(***************************************************************************)
(* C3                                                                      *)
(***************************************************************************)
\* C3 as stated: with X the folder "Q1" of u1, Create("Sub", u1, parent X)
\* returning Y leaves X.sub_folders = [Y]; the Delete of Y by u1 that follows
\* succeeds and leaves X.sub_folders = [].
C3_ParentChildScenario ==
    [][\A x, y \in Ids :
          /\ ( /\ DOMAIN table = {x}
               /\ table[x] = NewFolder(x, UserAna, "Q1", DefaultType)
               /\ req' = Event("POST", Some(UserAna), PathNull,
                               Some(Payload(Some("Sub"), Some(x), None, None, None)))
               /\ y = issued + 1 )
             => ( /\ resp'.statusCode = 201
                  /\ resp'.data[1].id = y
                  /\ table'[x].sub_folders = <<y>> )
          /\ ( /\ DOMAIN table = {x, y}
               /\ table[x] = [NewFolder(x, UserAna, "Q1", DefaultType)
                                 EXCEPT !.sub_folders = <<y>>]
               /\ table[y] = NewFolder(y, UserAna, "Sub", DefaultType)
               /\ req' = Event("DELETE", Some(UserAna), PathId(y), None) )
             => ( /\ resp'.statusCode = 200
                  /\ y \notin DOMAIN table'
                  /\ table'[x].sub_folders = <<>> )]_vars

(***************************************************************************)
(* C4                                                                      *)
(***************************************************************************)
Lists(tbl, p, id) == p \in DOMAIN tbl /\ id \in Range(tbl[p].sub_folders)

ContainerName(folder_id, user_id) ==
    sanitize_bucket_name(RawBucketName(folder_id, user_id)).name

\* C5 as stated: between requests, a record (id, owner) exists iff the
\* container of (id, owner) exists.
C5_RecordIffContainer ==
    \A i \in Ids, u \in Users :
        (i \in DOMAIN table /\ table[i].owner = u)
            <=> ContainerName(i, u) \in buckets

(***************************************************************************)
(* C6                                                                      *)
(***************************************************************************)
NameTaken(tbl, user_id, name) ==
    \E i \in DOMAIN tbl : tbl[i].owner = user_id /\ tbl[i].name = name

\* a POST with an identity, a parsable body and a non-empty folder_name
NamedPost(e) ==
    /\ e.httpMethod = "POST"
    /\ HasIdentity(e)
    /\ ~IsNone(e.body)
    /\ ~IsNone(Val(e.body).folder_name)
    /\ Val(Val(e.body).folder_name) # ""

\* C6 as stated: Create(name, owner) with a name the owner does not have yet
\* answers 201 with a record of a fresh, non-empty id, and Read-by-id of that
\* id by the owner then returns that name and owner and empty sub_folders,
\* required_files and files.
C6_CreateThenRead ==
    [][(NamedPost(req') /\ IsNone(Val(req'.body).folder_parent)
          /\ ~NameTaken(table, Caller(req'), Val(Val(req'.body).folder_name))) =>
          /\ resp'.statusCode = 201
          /\ Len(resp'.data) = 1
          /\ LET id == resp'.data[1].id
                 r  == get_folder_by_id(table', id, Caller(req'))
             IN  /\ Len(UuidStr(id)) > 0
                 /\ id \notin DOMAIN table
                 /\ r.exc = ""
                 /\ ~IsNone(r.folder)
                 /\ Val(r.folder).id = id
                 /\ Val(r.folder).name = Val(Val(req'.body).folder_name)
                 /\ Val(r.folder).owner = Caller(req')
                 /\ Val(r.folder).sub_folders = <<>>
                 /\ Val(r.folder).required_files = <<>>
                 /\ Val(r.folder).files = <<>>]_vars

(***************************************************************************)
(* C7                                                                      *)
(***************************************************************************)
\* C7 as stated: Create with an (owner, name) the table already holds fails
\* with AlreadyExists, however many items and pages the table has, and writes
\* nothing.
C7_DuplicateRefused ==
    [][(NamedPost(req')
          /\ NameTaken(table, Caller(req'), Val(Val(req'.body).folder_name))) =>
          /\ resp'.error = "FolderAlreadyExistsError"
          /\ table' = table
          /\ buckets' = buckets]_vars

(***************************************************************************)
(* C8                                                                      *)
(***************************************************************************)
\* the value a field has after an Update that supplies `given` for it
Updated(given, before) == IF IsNone(given) THEN before ELSE Val(given)

\* C8 as stated: Update by the owner succeeds for every subset of the fields
\* name, type, required_files, sub_folders; each supplied field then has the
\* supplied value, every other field its old value, and no other record
\* changes.
C8_UpdateAnySubset ==
    [][(IsById(req', "PUT") /\ ByOwner(req', table) /\ ~IsNone(req'.body)) =>
          LET id   == FolderId(req')
              body == Val(req'.body)
              old  == table[id]
          IN  /\ resp'.statusCode = 200
              /\ DOMAIN table' = DOMAIN table
              /\ \A j \in DOMAIN table \ {id} : table'[j] = table[j]
              /\ table'[id] =
                    [id |-> old.id, owner |-> old.owner, files |-> old.files,
                     name |-> Updated(body.folder_name, old.name),
                     type |-> Updated(body.type, old.type),
                     required_files |-> Updated(body.required_files, old.required_files),
                     sub_folders |-> Updated(body.sub_folders, old.sub_folders)]]_vars

(***************************************************************************)
(* C9                                                                      *)
(***************************************************************************)
\* C9 as stated: List-all(owner) returns the folders of the owner, each once
\* and no other, whatever the number of scan pages.
C9_ListAllComplete ==
    (req.httpMethod = "GET" /\ HasIdentity(req) /\ ~HasFolderId(req)) =>
        /\ resp.statusCode = 200
        /\ Range(resp.data) = { table[i] : i \in { j \in DOMAIN table :
                                              table[j].owner = Caller(req) } }
        /\ \A k, l \in DOMAIN resp.data : resp.data[k] = resp.data[l] => k = l

(***************************************************************************)
(* C10                                                                     *)
(***************************************************************************)
\* the code each failure kind is rendered with
KindsMapped ==
    /\ resp.error = "FolderNameRequiredError" => resp.statusCode = 400
    /\ resp.error = "InvalidBucketNameError" => resp.statusCode = 400
    /\ resp.error = "InvalidPayload" => resp.statusCode = 400
    /\ resp.error = "User ID is missing in headers" => resp.statusCode = 400
    /\ resp.error = "FolderPermissionError" => resp.statusCode = 403
    /\ resp.error = "FolderNotFoundError" => resp.statusCode = 404
    /\ resp.error = "Method Not Allowed" => resp.statusCode = 405
    /\ resp.error = "Exception" => resp.statusCode = 500
    /\ resp.error = "" => resp.statusCode \in {200, 201}
    /\ status_code("InvalidPayload") = 400

\* C10 as stated: every response carries a code of {200, 201, 400, 403, 404,
\* 405, 500} and each failure kind has its fixed code.
C10_StatusCodesAsListed ==
    req # NoRequest =>
        /\ resp.statusCode \in {200, 201, 400, 403, 404, 405, 500}
        /\ KindsMapped

\* C10 amended: the codes are {200, 201, 400, 403, 404, 405, 409, 500}; the
\* AlreadyExists failure (folder name or container) is rendered with 409, the
\* other kinds as listed.
C10_StatusCodes ==
    req # NoRequest =>
        /\ resp.statusCode \in {200, 201, 400, 403, 404, 405, 409, 500}
        /\ KindsMapped
        /\ resp.error = "FolderAlreadyExistsError" <=> resp.statusCode = 409

\* C10 witness: a Create of a name the caller already has was answered 409.
C10_Witness ==
    /\ NamedPost(req)
    /\ resp.statusCode = 409
    /\ resp.error = "FolderAlreadyExistsError"
    /\ NameTaken(table, Caller(req), Val(Val(req.body).folder_name))

(***************************************************************************)
(* C11                                                                     *)
(***************************************************************************)
StoresUntouched ==
    table' = table /\ buckets' = buckets /\ issued' = issued

\* C11: a request of any verb but OPTIONS whose identity is missing or empty
\* is answered 400 and neither the table nor the buckets change (no uuid is
\* generated either); an OPTIONS request, with or without an identity, is
\* answered with a bare 200 and changes neither store.
C11_NoIdentityNoOperation ==
    [][/\ (req' # NoRequest /\ req'.httpMethod # "OPTIONS" /\ ~HasIdentity(req')) =>
            /\ resp' = [statusCode |-> 400,
                        error |-> "User ID is missing in headers", data |-> <<>>]
            /\ StoresUntouched
       /\ req'.httpMethod = "OPTIONS" =>
            /\ resp' = [statusCode |-> 200, error |-> "", data |-> <<>>]
            /\ StoresUntouched]_vars

\* C11 witness: a DELETE that names an existing folder but carries no identity
\* has been answered 400 and the folder and its bucket are still there.
C11_Witness ==
    /\ req.httpMethod = "DELETE"
    /\ ~HasIdentity(req)
    /\ OnExisting(req, table)
    /\ resp.statusCode = 400
    /\ buckets # {}

(***************************************************************************)
(* C12                                                                     *)
(***************************************************************************)
\* a string of 3 to 63 characters of [a-z0-9-] with no hyphen at either end
Canonical(name) ==
    /\ Len(name) >= 3
    /\ Len(name) <= 63
    /\ \A i \in DOMAIN name :
          name[i] \in Range(LowerChars) \cup Range(DigitChars) \cup {"-"}
    /\ name[1] # "-"
    /\ name[Len(name)] # "-"

\* C12: on every input, sanitize_bucket_name returns a value exactly when the
\* cleaned form has 3 to 63 characters and fails with InvalidBucketNameError
\* otherwise; a returned value is canonical, and sanitizing it again returns
\* it unchanged.
C12_SanitizeIdempotent ==
    /\ sanitized.phase \in {"once", "twice"} =>
          /\ sanitized.first.ok <=> Len(CleanBucketName(sanitized.input)) \in 3 .. 63
          /\ sanitized.first.ok => Canonical(sanitized.first.name)
    /\ sanitized.phase = "twice" =>
          /\ sanitized.second.ok
          /\ sanitized.second.name = sanitized.first.name

\* C12 witness: an input with an upper-case letter, a space and a character
\* outside the class has been sanitized twice.
C12_Witness ==
    /\ sanitized.phase = "twice"
    /\ sanitized.input = <<"A", " ", "_", "b">>
    /\ sanitized.first.name = <<"a", "-", "b">>

(***************************************************************************)
(* C13                                                                     *)
(***************************************************************************)
\* C13 as stated: for a folder whose container exists under the canonical
\* name create_folder_in_s3 gave it, folder_exists_in_s3 answers true, and a
\* Delete by the owner removes exactly that container.
C13_SameContainerName ==
    [][(IsById(req', "DELETE") /\ ByOwner(req', table)
          /\ ContainerName(FolderId(req'), Caller(req')) \in buckets) =>
          /\ folder_exists_in_s3(buckets, FolderId(req'), Caller(req')) = "yes"
          /\ buckets' = buckets \ {ContainerName(FolderId(req'), Caller(req'))}]_vars

(***************************************************************************)
(* C14                                                                     *)
(***************************************************************************)
\* the ids the request has put into the sub_folders of p
Inserted(tbl, tbl2, p) ==
    Range(tbl2[p].sub_folders)
        \ (IF p \in DOMAIN tbl THEN Range(tbl[p].sub_folders) ELSE {})

\* C14 as stated: every id that a Create or an Update puts into the
\* sub_folders of a folder is the id of a record of the table (the table as
\* the request leaves it, which for a Create holds the new record).
C14_InsertedIdsExist ==
    [][req'.httpMethod \in {"POST", "PUT"} =>
          \A p \in DOMAIN table' :
              Inserted(table, table', p) \subseteq DOMAIN table']_vars

(***************************************************************************)
(* C15                                                                     *)
(***************************************************************************)
\* the call has returned 201
Created(c) == calls[c].pc = "done" /\ calls[c].statusCode = 201

\* the list of the parent as the call read it
ListRead(c) == SubSeq(calls[c].sub_folders, 1, Len(calls[c].sub_folders) - 1)

\* two calls with the same parent that both read its list before either
\* wrote it back, and both returned 201
LostUpdateRun(c, d) ==
    /\ c # d
    /\ Created(c)
    /\ Created(d)
    /\ ~IsNone(calls[c].folder_parent)
    /\ calls[d].folder_parent = calls[c].folder_parent
    /\ calls[c].folder_name # calls[d].folder_name
    /\ ListRead(c) = ListRead(d)

\* C15: when two concurrent Creates under one parent have both read the
\* parent's list before either wrote it, and both have returned 201, both
\* child records exist and the parent's sub_folders holds exactly one of the
\* two new ids: the list one of them wrote, the other's append being lost.
C15_LostUpdate ==
    \A c, d \in CallIds :
        LostUpdateRun(c, d) =>
            LET parent == table[Val(calls[c].folder_parent)]
            IN  /\ calls[c].folder_id \in DOMAIN table
                /\ calls[d].folder_id \in DOMAIN table
                /\ calls[c].folder_id # calls[d].folder_id
                /\ parent.sub_folders \in {calls[c].sub_folders, calls[d].sub_folders}
                /\ Cardinality(Range(parent.sub_folders)
                                  \cap {calls[c].folder_id, calls[d].folder_id}) = 1

\* C15 witness: such a run has happened, and the parent lists the folder of
\* the second call only.
C15_Witness ==
    /\ LostUpdateRun(1, 2)
    /\ table[1].sub_folders = <<calls[2].folder_id>>
    /\ calls[1].folder_id \in DOMAIN table

(***************************************************************************)
(* C16                                                                     *)
(***************************************************************************)
\* two calls with the same owner and name whose Scans both ran before either
\* wrote its record, both finished
SameNameRun(c, d) ==
    /\ c # d
    /\ calls[c].pc = "done"
    /\ calls[d].pc = "done"
    /\ calls[c].user_id = calls[d].user_id
    /\ calls[c].folder_name = calls[d].folder_name
    /\ calls[c].folder_id \notin calls[d].seen
    /\ calls[d].folder_id \notin calls[c].seen
    /\ calls[c].folder_id # 0
    /\ calls[d].folder_id # 0

\* C16: when two concurrent Creates of the same (owner, name) have both run
\* their Scan before either wrote its record, both return 201 and the table
\* ends with two records of distinct ids with that owner and that name.
C16_NameNotUnique ==
    \A c, d \in CallIds :
        SameNameRun(c, d) =>
            /\ Created(c)
            /\ Created(d)
            /\ calls[c].folder_id # calls[d].folder_id
            /\ \A i \in {calls[c].folder_id, calls[d].folder_id} :
                  /\ i \in DOMAIN table
                  /\ table[i].owner = calls[c].user_id
                  /\ table[i].name = calls[c].folder_name

\* C16 witness: two records with the owner and the name of both calls exist.
C16_Witness ==
    /\ SameNameRun(1, 2)
    /\ Cardinality({ i \in DOMAIN table : /\ table[i].owner = calls[1].user_id
                                           /\ table[i].name = calls[1].folder_name }) = 2

(***************************************************************************)
(* C17                                                                     *)
(***************************************************************************)
\* the step is a Create that got as far as put_item (a uuid was generated
\* and the parent, if one was named, was found) and then failed
FailedAfterPut ==
    /\ NamedPost(req')
    /\ issued' = issued + 1
    /\ \/ IsNone(Val(req'.body).folder_parent)
       \/ Val(Val(req'.body).folder_parent) \in DOMAIN table
    /\ resp'.statusCode # 201

\* the record and the parent's reference are in the table, nothing else has
\* changed, and the folder has no container
NotRolledBack ==
    LET id     == issued + 1
        body   == Val(req'.body)
        parent == body.folder_parent
    IN  /\ id \in DOMAIN table'
        /\ table'[id] = NewFolder(id, Caller(req'), Val(body.folder_name), DefaultType)
        /\ \A i \in DOMAIN table :
              table'[i] = IF ~IsNone(parent) /\ i = Val(parent)
                          THEN [table[i] EXCEPT !.sub_folders = Append(@, id)]
                          ELSE table[i]
        /\ buckets' = buckets
        /\ ContainerName(id, Caller(req')) \notin buckets'
        /\ RawBucketName(id, Caller(req')) \notin buckets'

\* C17 as stated: a Create that has written its record (and the parent's
\* reference) and then fails in the container step answers 500, and the
\* record and the reference stay, with no container.
C17_FailureIs500 ==
    [][FailedAfterPut => resp'.statusCode = 500 /\ NotRolledBack]_vars

\* C17 amended: such a Create answers with the code of the failure (400 for
\* InvalidBucketNameError, 409 for a container that exists already, 500 for
\* any other exception), and the record and the reference stay, with no
\* container.
C17_NoRollback ==
    [][FailedAfterPut =>
          /\ \/ resp'.error = "InvalidBucketNameError" /\ resp'.statusCode = 400
             \/ resp'.error = "FolderAlreadyExistsError" /\ resp'.statusCode = 409
             \/ resp'.error = "Exception" /\ resp'.statusCode = 500
          /\ NotRolledBack]_vars

\* C17 witness: a Create under a parent has been answered 500; its record
\* is in the table, the parent lists it, and it has no container.
C17_Witness ==
    /\ NamedPost(req)
    /\ ~IsNone(Val(req.body).folder_parent)
    /\ resp.statusCode = 500
    /\ issued \in DOMAIN table
    /\ table[issued].owner = Caller(req)
    /\ issued \in Range(table[Val(Val(req.body).folder_parent)].sub_folders)
    /\ ContainerName(issued, Caller(req)) \notin buckets

(***************************************************************************)
(* C18                                                                     *)
(***************************************************************************)
\* a Create that names a parent which has no record
PostUnderAbsentParent(e, tbl) ==
    /\ NamedPost(e)
    /\ ~IsNone(Val(e.body).folder_parent)
    /\ Val(Val(e.body).folder_parent) \notin DOMAIN tbl

\* an Update or a Delete of an id which has no record
OnAbsent(e, tbl) ==
    /\ IsById(e, "PUT") \/ IsById(e, "DELETE")
    /\ FolderId(e) \notin DOMAIN tbl

NotFound404(r) == r.statusCode = 404 /\ r.error = "FolderNotFoundError"

\* C18 as stated: a Create under a parent that has no record, and an Update
\* or a Delete of an id that has no record, are answered 404 NotFound and
\* change neither the table nor the buckets.
C18_AbsentIs404 ==
    [][(PostUnderAbsentParent(req', table) \/ OnAbsent(req', table)) =>
          NotFound404(resp') /\ table' = table /\ buckets' = buckets]_vars

\* C18 amended: such a request changes neither the table nor the buckets,
\* and it is answered 404 NotFound when it is a Create of a name the caller
\* does not have yet, an Update whose body parses, or a Delete.  (The scan
\* for the name runs before the parent is looked up and may answer 409; the
\* body of an Update is parsed before the record is looked up and an
\* unparsable one is answered 500.)
C18_AbsentChangesNothing ==
    [][/\ PostUnderAbsentParent(req', table) =>
            /\ table' = table /\ buckets' = buckets
            /\ ~NameTaken(table, Caller(req'), Val(Val(req'.body).folder_name))
                  => NotFound404(resp')
       /\ OnAbsent(req', table) =>
            /\ table' = table /\ buckets' = buckets
            /\ (req'.httpMethod = "PUT" => ~IsNone(req'.body)) => NotFound404(resp')]_vars

\* C18 witness: a Create under a parent that has no record, in a table that
\* has records, has been answered 404.
C18_Witness ==
    /\ PostUnderAbsentParent(req, table)
    /\ NotFound404(resp)
    /\ table # <<>>

(***************************************************************************)
(* C19                                                                     *)
(***************************************************************************)
\* C19 as stated: a request with caller identity u, of any verb and whether
\* it succeeds or fails, leaves every record whose owner is not u in the
\* table and unchanged.
C19_OtherOwnersUntouched ==
    [][(req' # NoRequest /\ HasIdentity(req')) =>
          \A i \in DOMAIN table :
              table[i].owner # Caller(req') =>
                  i \in DOMAIN table' /\ table'[i] = table[i]]_vars

(***************************************************************************)
(* C20                                                                     *)
(***************************************************************************)
\* C20: no request changes the id or the owner of a record that stays in the
\* table, whatever its payload; the id of a record is its key; and the id of
\* a new record is one that no record has had before (every id generated so
\* far is at most issued, every new one is above it).
C20_IdentityImmutable ==
    [][/\ \A i \in DOMAIN table : table[i].id = i /\ i <= issued
       /\ \A i \in DOMAIN table \cap DOMAIN table' :
             table'[i].id = table[i].id /\ table'[i].owner = table[i].owner
       /\ \A i \in DOMAIN table' \ DOMAIN table :
             i > issued /\ table'[i].id = i /\ table'[i].owner = Caller(req')]_vars

\* C20 witness: an Update by the owner whose payload carries the id and the
\* owner of somebody else has been applied, while an id generated earlier
\* has no record; the record has the id and the owner it had.
C20_Witness ==
    /\ IsById(req, "PUT")
    /\ req.body = Some(ForgedPayload)
    /\ resp.statusCode = 200
    /\ FolderId(req) \in DOMAIN table
    /\ table[FolderId(req)].id = FolderId(req)
    /\ table[FolderId(req)].owner = UserAna
    /\ table[FolderId(req)].name = "Sub"
    /\ \E i \in 1 .. issued : i \notin DOMAIN table

====
